---- MODULE Spec2Model ----
(***************************************************************************)
(* Model of the proof-of-work ledger of src/main.py: the hasher            *)
(* (encode_string), the Block record and its digest recomputation, the     *)
(* admission loop of BlockChain.validate_block and the verification pass   *)
(* BlockChain.check_integrity.                                             *)
(*                                                                         *)
(* Text is a sequence of character codes: 0..9 are the characters '0'..'9',*)
(* larger codes are other characters.  A Python value is a record          *)
(* [type, val]; only values of type "str" are text.  SHA-256 is replaced by *)
(* a small polynomial digest: deterministic, of fixed length HashLen over   *)
(* HexBase characters, and, like any fixed-length digest, not injective.    *)
(***************************************************************************)
EXTENDS Integers, Sequences, FiniteSets, TLC

\* ---------------------------------------------------------------- bounds
MaxDifficulty == 3      \* difficulties 1..MaxDifficulty are tried
MaxBlocks     == 3      \* Block objects ever constructed, genesis included
MaxNonce      == 12     \* the nonce search is cut off after this nonce
MaxTampers    == 1      \* direct attribute overwrites by the caller
HexBase       == 4      \* digest characters are '0'..HexBase-1
HashLen       == 2      \* characters in a digest
HashMult      == 3      \* multiplier of the model digest function
HashSeed      == 2      \* initial value of the model digest function

HashMod == HexBase ^ HashLen

\* ------------------------------------------------------- Python values
Str(s) == [type |-> "str", val |-> s]

NoneIdx == -1                     \* Block.idx = None
NoAttr  == <<50>>                 \* attribute not assigned yet

GenesisContent == Str(<<12>>)     \* 'this is the genesis'
GenesisPrev    == <<40, 16, 41>>  \* '(genesis has no previous block)'

Contents    == {Str(<<10>>), Str(<<11>>), Str(<<10, 1>>)}
BadContents == {[type |-> "int", val |-> <<4>>],
                [type |-> "bytes", val |-> <<10>>],
                [type |-> "NoneType", val |-> <<>>]}
True == [type |-> "bool", val |-> <<1>>]
Difficulties == 1..MaxDifficulty

\* ------------------------------------------------------------- hasher
\* str(n) for a non-negative int: its decimal digits, most significant first
RECURSIVE str(_)
str(n) == IF n < 10 THEN <<n>> ELSE str(n \div 10) \o <<n % 10>>

RECURSIVE HashAcc(_, _)
HashAcc(s, h) ==
    IF s = <<>> THEN h
    ELSE HashAcc(Tail(s), (h * HashMult + Head(s) + 1) % HashMod)

\* hexdigest(): the HashLen characters of h, least significant first
HexDigest(h) == [i \in 1..HashLen |-> (h \div (HexBase ^ (i - 1))) % HexBase]

\* encode_string(message): TypeError unless message is a str
encode_string(message) ==
    IF message.type # "str" THEN [exc |-> "TypeError", val |-> <<>>]
    ELSE [exc |-> "none", val |-> HexDigest(HashAcc(message.val, HashSeed))]

\* mutant: the content is coerced to text instead of being rejected
ConcatCoerced(content, nonce) ==
    [exc |-> "none", val |-> Str(content.val \o str(nonce))]

\* content + str(nonce): TypeError unless content is a str
Concat(content, nonce) ==
    IF content.type # "str" THEN [exc |-> "TypeError", val |-> Str(<<>>)]
    ELSE [exc |-> "none", val |-> Str(content.val \o str(nonce))]

\* mutant: the nonce is put in front of the content
compute_hash_nonce_first(content, nonce) ==
    IF content.type # "str" THEN [exc |-> "TypeError", val |-> <<>>]
    ELSE encode_string(Str(str(nonce) \o content.val))

\* Block.compute_hash: the new value of self.hash, or the exception raised
compute_hash(content, nonce) ==
    LET content_to_hash == Concat(content, nonce) IN
    IF content_to_hash.exc # "none" THEN [exc |-> content_to_hash.exc, val |-> <<>>]
    ELSE IF content_to_hash.val.type # "str" THEN [exc |-> "AssertionError", val |-> <<>>]
    ELSE encode_string(content_to_hash.val)

\* s[:n] and '0'*n
Prefix(s, n) == SubSeq(s, 1, IF n < Len(s) THEN n ELSE Len(s))
Zeros(n)     == [i \in 1..n |-> 0]

\* block.hash[:self.difficulty] == '0'*self.difficulty
ProofOfWork(hash, d) == Prefix(hash, d) = Zeros(d)

\* ---------------------------------------------------------------- state
VARIABLES
    difficulty,   \* BlockChain.difficulty
    blocks,       \* BlockChain.blocks: sequence of references into heap
    heap,         \* every Block object constructed so far
    pc,           \* "new" | "guard" | "hash" | "idle"
    cur,          \* the block validate_block is working on, 0 if none
    constructed,  \* BlockChain.__init__ has returned
    result,       \* outcome of the most recent call of the caller
    calls,        \* the Block objects the caller has passed to addBlock, in order
    nTampers,     \* direct attribute overwrites done so far
    lastTamper,   \* the most recent one
    pc2,          \* position of a second caller's addBlock: "idle" | "guard" | "hash"
    cur2          \* the block that second call is working on, 0 if none

vars == <<difficulty, blocks, heap, pc, cur, constructed, result, calls, nTampers, lastTamper,
          pc2, cur2>>

None == [type |-> "NoneType", val |-> <<>>]

\* op: the call; input: its argument; exc: the exception it raised; ret: the
\* value it returned; line, args, trace: see check_integrity
NoResult ==
    [op |-> "none", input |-> None, exc |-> "none", ret |-> None, line |-> 0,
     args |-> <<>>, trace |-> <<>>]
NoTamper == [k |-> 0, ref |-> 0, field |-> "none", old |-> <<>>]

\* a call that returned None, and a call that raised
Ret(op) == [NoResult EXCEPT !.op = op]
Raise(op, exc) == [NoResult EXCEPT !.op = op, !.exc = exc]

\* the Block object at position i of blocks (positions are 0-based)
At(i) == heap[blocks[i + 1]]

\* Block.__init__(content) up to the call of compute_hash
NewBlockRec(content, hash) ==
    [idx |-> NoneIdx, nonce |-> 0, content |-> content, hash |-> hash,
     previous_block_hash |-> NoAttr]

\* entry of BlockChain.__init__(d), after lines 27-28
Init ==
    /\ difficulty \in Difficulties
    /\ blocks = <<>>
    /\ heap = <<>>
    /\ pc = "new"
    /\ cur = 0
    /\ constructed = FALSE
    /\ result = NoResult
    /\ calls = <<>>
    /\ nTampers = 0
    /\ lastTamper = NoTamper
    /\ pc2 = "idle"
    /\ cur2 = 0

\* mutant: the predecessor is looked up one position too early
\* (blocks[idx-2], which for idx = 1 is Python's blocks[-1])
PreviousHashOffByOne(idx) ==
    IF idx = 0 THEN GenesisPrev
    ELSE At(IF idx >= 2 THEN idx - 2 ELSE Len(blocks) - 1).hash

\* mutant: the special case of index 0 is dropped and the attribute of the
\* first block is never assigned
PreviousHashNoSentinel(idx) ==
    IF idx = 0 THEN NoAttr ELSE At(idx - 1).hash

\* lines 42-46 of validate_block: the predecessor's digest for an index
PreviousHash(idx) ==
    IF idx = 0 THEN GenesisPrev ELSE At(idx - 1).hash

\* create_genesis, addBlock and validate_block up to the mining loop
create_genesis ==
    /\ pc = "new"
    /\ LET h == compute_hash(GenesisContent, 0)
           b == [NewBlockRec(GenesisContent, h.val) EXCEPT
                   !.idx = Len(blocks),
                   !.previous_block_hash = PreviousHash(Len(blocks))]
       IN /\ heap' = Append(heap, b)
          /\ cur' = Len(heap) + 1
    /\ pc' = "guard"
    /\ result' = NoResult
    /\ UNCHANGED <<difficulty, blocks, constructed, calls, nTampers, lastTamper, pc2, cur2>>

\* Block(content): a detached block, or the exception of compute_hash; as in
\* the loops of main.py and test.py the caller constructs a block once the
\* previous one is admitted
NewBlock(content) ==
    /\ pc = "idle"
    /\ Len(heap) < MaxBlocks
    /\ \A b \in DOMAIN heap : heap[b].idx # NoneIdx
    /\ LET h == compute_hash(content, 0) IN
       IF h.exc # "none"
       THEN /\ result' = [Raise("Block", h.exc) EXCEPT !.input = content]
            /\ UNCHANGED heap
       ELSE /\ heap' = Append(heap, NewBlockRec(content, h.val))
            /\ result' = [Ret("Block") EXCEPT !.input = content]
    /\ UNCHANGED <<difficulty, blocks, pc, cur, constructed, calls, nTampers, lastTamper, pc2, cur2>>

\* mutant: indices are counted from 1
AddBlockOfOneBased(b) ==
    /\ pc = "idle"
    /\ heap' = [heap EXCEPT ![b].idx = Len(blocks) + 1,
                            ![b].previous_block_hash = PreviousHash(Len(blocks))]
    /\ cur' = b
    /\ pc' = "guard"
    /\ result' = NoResult
    /\ calls' = Append(calls, b)
    /\ UNCHANGED <<difficulty, blocks, constructed, nTampers, lastTamper, pc2, cur2>>

\* addBlock(new_block) and validate_block up to the mining loop
AddBlockOf(b) ==
    /\ pc = "idle"
    /\ heap' = [heap EXCEPT ![b].idx = Len(blocks),
                            ![b].previous_block_hash = PreviousHash(Len(blocks))]
    /\ cur' = b
    /\ pc' = "guard"
    /\ result' = NoResult
    /\ calls' = Append(calls, b)
    /\ UNCHANGED <<difficulty, blocks, constructed, nTampers, lastTamper, pc2, cur2>>

\* addBlock of a freshly constructed block
addBlock ==
    \E b \in DOMAIN heap : heap[b].idx = NoneIdx /\ AddBlockOf(b)

\* mutant: the loop asks for one leading zero less
LoopGuardOffByOne(b) == ~ProofOfWork(heap[b].hash, difficulty - 1)

\* line 48: block.hash[:self.difficulty] != '0'*self.difficulty
LoopGuard(b) == ~ProofOfWork(heap[b].hash, difficulty)

\* mutant: the nonce is not advanced
MineIncStuck ==
    /\ pc = "guard"
    /\ LoopGuard(cur)
    /\ heap[cur].nonce < MaxNonce
    /\ heap' = heap
    /\ pc' = "hash"
    /\ UNCHANGED <<difficulty, blocks, cur, constructed, result, calls, nTampers, lastTamper, pc2, cur2>>

\* mutant: the nonce advances by two
MineIncSkipping ==
    /\ pc = "guard"
    /\ LoopGuard(cur)
    /\ heap[cur].nonce < MaxNonce
    /\ heap' = [heap EXCEPT ![cur].nonce = @ + 2]
    /\ pc' = "hash"
    /\ UNCHANGED <<difficulty, blocks, cur, constructed, result, calls, nTampers, lastTamper, pc2, cur2>>

\* line 48 true, line 49: block.nonce += 1
MineInc ==
    /\ pc = "guard"
    /\ LoopGuard(cur)
    /\ heap[cur].nonce < MaxNonce
    /\ heap' = [heap EXCEPT ![cur].nonce = @ + 1]
    /\ pc' = "hash"
    /\ UNCHANGED <<difficulty, blocks, cur, constructed, result, calls, nTampers, lastTamper, pc2, cur2>>

\* mutant: the digest is not recomputed after the increment
MineHashSkipped ==
    /\ pc = "hash"
    /\ pc' = "guard"
    /\ UNCHANGED <<difficulty, blocks, heap, cur, constructed, result, calls, nTampers, lastTamper, pc2, cur2>>

\* mutant: the predecessor's digest is hashed together with the content
MineHashWithPrev ==
    /\ pc = "hash"
    /\ heap' = [heap EXCEPT ![cur].hash =
                  encode_string(Str(heap[cur].previous_block_hash
                                    \o heap[cur].content.val \o str(heap[cur].nonce))).val]
    /\ pc' = "guard"
    /\ UNCHANGED <<difficulty, blocks, cur, constructed, result, calls, nTampers, lastTamper, pc2, cur2>>

\* line 50: block.compute_hash()
MineHash ==
    /\ pc = "hash"
    /\ heap' = [heap EXCEPT ![cur].hash = compute_hash(heap[cur].content, heap[cur].nonce).val]
    /\ pc' = "guard"
    /\ UNCHANGED <<difficulty, blocks, cur, constructed, result, calls, nTampers, lastTamper, pc2, cur2>>

\* mutant: the block is inserted at the front of blocks
MineExitPrepend ==
    /\ pc = "guard"
    /\ ~LoopGuard(cur)
    /\ blocks' = <<cur>> \o blocks
    /\ cur' = 0
    /\ pc' = "idle"
    /\ constructed' = TRUE
    /\ result' = IF constructed THEN Ret("addBlock") ELSE Ret("BlockChain")
    /\ UNCHANGED <<difficulty, heap, calls, nTampers, lastTamper, pc2, cur2>>

\* line 48 false, line 55: self.blocks.append(block); __init__ returns after
\* the first append
MineExit ==
    /\ pc = "guard"
    /\ ~LoopGuard(cur)
    /\ blocks' = Append(blocks, cur)
    /\ cur' = 0
    /\ pc' = "idle"
    /\ constructed' = TRUE
    /\ result' = IF constructed THEN Ret("addBlock") ELSE Ret("BlockChain")
    /\ UNCHANGED <<difficulty, heap, calls, nTampers, lastTamper, pc2, cur2>>

\* the caller calls encode_string(message)
EncodeString(message) ==
    /\ pc = "idle"
    /\ LET h == encode_string(message) IN
       result' = [NoResult EXCEPT !.op = "encode_string", !.input = message,
                                  !.exc = h.exc,
                                  !.ret = IF h.exc = "none" THEN Str(h.val) ELSE None]
    /\ UNCHANGED <<difficulty, blocks, heap, pc, cur, constructed, calls, nTampers, lastTamper, pc2, cur2>>

\* ---------------------------------------------------- check_integrity
LinkLine   == 108     \* assert previous_block.hash == block.previous_block_hash
ConcatLine == 111     \* content_to_hash = block.content + str(block.nonce)
DigestLine == 112     \* assert block.hash == encode_string(content_to_hash)
PowLine    == 115     \* assert block.hash[:self.difficulty] == '0'*self.difficulty

\* an exception leaving check_integrity: a bare assert carries no arguments;
\* the traceback names the line that raised
Failed(exc, line, trace) ==
    [NoResult EXCEPT !.op = "check_integrity", !.exc = exc, !.line = line,
                     !.trace = trace]

\* mutant: the digest is not recomputed by the pass
RECURSIVE IntegrityPassNoDigest(_, _)
IntegrityPassNoDigest(i, trace) ==
    IF i > Len(blocks) - 1
    THEN [NoResult EXCEPT !.op = "check_integrity", !.ret = True, !.trace = trace]
    ELSE LET block == At(i)
             previous_block == At(i - 1)
             t1 == Append(trace, <<i, LinkLine>>)
             t3 == Append(t1, <<i, PowLine>>)
         IN IF previous_block.hash # block.previous_block_hash
            THEN Failed("AssertionError", LinkLine, t1)
            ELSE IF Prefix(block.hash, difficulty) # Zeros(difficulty)
            THEN Failed("AssertionError", PowLine, t3)
            ELSE IntegrityPassNoDigest(i + 1, t3)

\* mutant: the digest is recomputed before the link is compared
RECURSIVE IntegrityPassDigestFirst(_, _)
IntegrityPassDigestFirst(i, trace) ==
    IF i > Len(blocks) - 1
    THEN [NoResult EXCEPT !.op = "check_integrity", !.ret = True, !.trace = trace]
    ELSE LET block == At(i)
             previous_block == At(i - 1)
             content_to_hash == Concat(block.content, block.nonce)
             t1 == Append(trace, <<i, DigestLine>>)
             t2 == Append(t1, <<i, LinkLine>>)
             t3 == Append(t2, <<i, PowLine>>)
         IN IF content_to_hash.exc # "none"
            THEN Failed(content_to_hash.exc, ConcatLine, trace)
            ELSE IF block.hash # encode_string(content_to_hash.val).val
            THEN Failed("AssertionError", DigestLine, t1)
            ELSE IF previous_block.hash # block.previous_block_hash
            THEN Failed("AssertionError", LinkLine, t2)
            ELSE IF Prefix(block.hash, difficulty) # Zeros(difficulty)
            THEN Failed("AssertionError", PowLine, t3)
            ELSE IntegrityPassDigestFirst(i + 1, t3)

\* mutant: the proof of work is not examined by the pass
RECURSIVE IntegrityPassNoPow(_, _)
IntegrityPassNoPow(i, trace) ==
    IF i > Len(blocks) - 1
    THEN [NoResult EXCEPT !.op = "check_integrity", !.ret = True, !.trace = trace]
    ELSE LET block == At(i)
             previous_block == At(i - 1)
             content_to_hash == Concat(block.content, block.nonce)
             t1 == Append(trace, <<i, LinkLine>>)
             t2 == Append(t1, <<i, DigestLine>>)
         IN IF previous_block.hash # block.previous_block_hash
            THEN Failed("AssertionError", LinkLine, t1)
            ELSE IF content_to_hash.exc # "none"
            THEN Failed(content_to_hash.exc, ConcatLine, t1)
            ELSE IF block.hash # encode_string(content_to_hash.val).val
            THEN Failed("AssertionError", DigestLine, t2)
            ELSE IntegrityPassNoPow(i + 1, t2)

\* the loop of lines 103-115 from index i on; trace lists the statements that
\* were evaluated as <<index, line>>
RECURSIVE IntegrityPass(_, _)
IntegrityPass(i, trace) ==
    IF i > Len(blocks) - 1
    THEN [NoResult EXCEPT !.op = "check_integrity", !.ret = True, !.trace = trace]
    ELSE LET block == At(i)
             previous_block == At(i - 1)
             content_to_hash == Concat(block.content, block.nonce)
             t1 == Append(trace, <<i, LinkLine>>)
             t2 == Append(t1, <<i, DigestLine>>)
             t3 == Append(t2, <<i, PowLine>>)
         IN IF previous_block.hash # block.previous_block_hash
            THEN Failed("AssertionError", LinkLine, t1)
            ELSE IF content_to_hash.exc # "none"
            THEN Failed(content_to_hash.exc, ConcatLine, t1)
            ELSE IF block.hash # encode_string(content_to_hash.val).val
            THEN Failed("AssertionError", DigestLine, t2)
            ELSE IF Prefix(block.hash, difficulty) # Zeros(difficulty)
            THEN Failed("AssertionError", PowLine, t3)
            ELSE IntegrityPass(i + 1, t3)

\* mutant: the pass stores the digest it recomputes in each block
check_integrity_repairing ==
    /\ pc = "idle"
    /\ result' = IntegrityPass(1, <<>>)
    /\ heap' = [b \in DOMAIN heap |->
                  [heap[b] EXCEPT !.hash = compute_hash(heap[b].content, heap[b].nonce).val]]
    /\ UNCHANGED <<difficulty, blocks, pc, cur, constructed, calls, nTampers, lastTamper, pc2, cur2>>

check_integrity ==
    /\ pc = "idle"
    /\ result' = IntegrityPass(1, <<>>)
    /\ UNCHANGED <<difficulty, blocks, heap, pc, cur, constructed, calls, nTampers, lastTamper, pc2, cur2>>

\* ------------------------------------------- callers outside the contract
MaxChain == 4     \* length of blocks up to which a block is admitted again

\* addBlock of a Block object that was passed to addBlock before
addBlockAgain ==
    /\ Len(blocks) < MaxChain
    /\ \E b \in DOMAIN heap : heap[b].idx # NoneIdx /\ AddBlockOf(b)

MaxTamperNonce == 1     \* nonces 0..MaxTamperNonce are written by the caller

\* a text that differs from the content <<10>> and has the same digest with
\* every nonce: the digest function is not injective
CollidingContent == Str(<<10 + HashMod>>)

\* the values the caller writes into an attribute of the block at position k:
\* for the content, the contents in use and a colliding one; for a digest, the all-zero digest, a digest with one leading zero and a
\* digest with none
TamperValues(k, field) ==
    CASE field = "content" -> Contents \cup {GenesisContent, CollidingContent}
      [] field = "hash" ->
            {Zeros(HashLen), HexDigest(HexBase), HexDigest(HashMod - 1)}
      [] field = "nonce" -> 0..MaxTamperNonce
      [] field = "previous_block_hash" ->
            {GenesisPrev, Zeros(HashLen), HexDigest(HashMod - 1)}

\* the caller assigns an attribute of the block at position k of blocks
Tamper(k, field, v) ==
    /\ pc = "idle"
    /\ nTampers < MaxTampers
    /\ k \in 0..(Len(blocks) - 1)
    /\ v # At(k)[field]
    /\ heap' = [heap EXCEPT ![blocks[k + 1]][field] = v]
    /\ nTampers' = nTampers + 1
    /\ lastTamper' = [k |-> k, ref |-> blocks[k + 1], field |-> field, old |-> At(k)[field]]
    /\ result' = NoResult
    /\ UNCHANGED <<difficulty, blocks, pc, cur, constructed, calls, pc2, cur2>>

TamperFields == {"content", "hash", "nonce", "previous_block_hash"}

\* the caller calls compute_hash() on the block at position k of blocks
\* (re-hashing without re-mining); a call that changes nothing is left out
Rehash(k) ==
    /\ pc = "idle"
    /\ k \in 0..(Len(blocks) - 1)
    /\ LET h == compute_hash(At(k).content, At(k).nonce) IN
       /\ h.exc = "none"
       /\ h.val # At(k).hash
       /\ heap' = [heap EXCEPT ![blocks[k + 1]].hash = h.val]
    /\ lastTamper' = [k |-> k, ref |-> blocks[k + 1], field |-> "compute_hash", old |-> At(k).hash]
    /\ result' = NoResult
    /\ UNCHANGED <<difficulty, blocks, pc, cur, constructed, calls, nTampers, pc2, cur2>>

\* ------------------------------------------- a second caller
\* A second thread that holds the same BlockChain object and calls addBlock
\* with a block of its own. Block(content) touches no shared state, so it is
\* taken together with lines 70-71 of addBlock and lines 42-46 of
\* validate_block; the class has no lock, so the call can start while the
\* first caller's admission is in its mining loop.
addBlock2(content) ==
    /\ constructed
    /\ pc2 = "idle"
    /\ Len(heap) < MaxBlocks
    /\ LET h == compute_hash(content, 0)
           b == [NewBlockRec(content, h.val) EXCEPT
                   !.idx = Len(blocks),
                   !.previous_block_hash = PreviousHash(Len(blocks))]
       IN /\ heap' = Append(heap, b)
          /\ cur2' = Len(heap) + 1
    /\ pc2' = "guard"
    /\ calls' = Append(calls, Len(heap) + 1)
    /\ UNCHANGED <<difficulty, blocks, pc, cur, constructed, result, nTampers, lastTamper>>

\* line 48 true, line 49 in the second thread
MineInc2 ==
    /\ pc2 = "guard"
    /\ LoopGuard(cur2)
    /\ heap[cur2].nonce < MaxNonce
    /\ heap' = [heap EXCEPT ![cur2].nonce = @ + 1]
    /\ pc2' = "hash"
    /\ UNCHANGED <<difficulty, blocks, pc, cur, constructed, result, calls, nTampers, lastTamper, cur2>>

\* line 50 in the second thread
MineHash2 ==
    /\ pc2 = "hash"
    /\ heap' = [heap EXCEPT ![cur2].hash =
                  compute_hash(heap[cur2].content, heap[cur2].nonce).val]
    /\ pc2' = "guard"
    /\ UNCHANGED <<difficulty, blocks, pc, cur, constructed, result, calls, nTampers, lastTamper, cur2>>

\* line 48 false, line 55 in the second thread
MineExit2 ==
    /\ pc2 = "guard"
    /\ ~LoopGuard(cur2)
    /\ blocks' = Append(blocks, cur2)
    /\ cur2' = 0
    /\ pc2' = "idle"
    /\ UNCHANGED <<difficulty, heap, pc, cur, constructed, result, calls, nTampers, lastTamper>>

\* ------------------------------------------------------- specifications
Next ==
    \/ create_genesis
    \/ \E c \in Contents \cup BadContents : NewBlock(c)
    \/ addBlock
    \/ MineInc
    \/ MineHash
    \/ MineExit
    \/ \E m \in Contents \cup BadContents : EncodeString(m)
    \/ check_integrity

Spec == Init /\ [][Next]_vars

\* two callers on one chain
NextConc ==
    \/ create_genesis
    \/ \E content \in Contents : NewBlock(content)
    \/ addBlock
    \/ MineInc
    \/ MineHash
    \/ MineExit
    \/ check_integrity
    \/ \E content \in Contents : addBlock2(content)
    \/ MineInc2
    \/ MineHash2
    \/ MineExit2

SpecConc == Init /\ [][NextConc]_vars

\* the interpreter keeps executing the statements of a call that has started
SpecLive ==
    Spec /\ WF_vars(MineInc) /\ WF_vars(MineHash) /\ WF_vars(MineExit)

NextReuse ==
    \/ create_genesis
    \/ \E c \in Contents : NewBlock(c)
    \/ addBlock
    \/ addBlockAgain
    \/ MineInc
    \/ MineHash
    \/ MineExit
    \/ check_integrity

SpecReuse == Init /\ [][NextReuse]_vars

NextTamper ==
    \/ create_genesis
    \/ \E c \in Contents : NewBlock(c)
    \/ addBlock
    \/ MineInc
    \/ MineHash
    \/ MineExit
    \/ check_integrity
    \/ \E k \in 0..(Len(blocks) - 1), f \in TamperFields :
          \E v \in TamperValues(k, f) : Tamper(k, f, v)
    \/ \E k \in 0..(Len(blocks) - 1) : Rehash(k)

SpecTamper == Init /\ [][NextTamper]_vars

\* ---------------------------------------------------------------- claims
\* the first d characters of h exist and are all '0'
LeadingZeros(h, d) == Len(h) >= d /\ \A j \in 1..d : h[j] = 0

\* Hash(content ++ decimal(nonce)) of a block
DigestOf(b) == encode_string(Str(b.content.val \o str(b.nonce))).val

Mining == pc \in {"guard", "hash"}

\* C1: every block in blocks, genesis included, has a digest with `difficulty`
\* leading '0' characters, in every state, also while a mining loop runs; the
\* block being mined is not in blocks before the loop has exited.
C1_ProofOfWork ==
    /\ \A i \in 1..Len(blocks) : LeadingZeros(heap[blocks[i]].hash, difficulty)
    /\ Mining => \A i \in 1..Len(blocks) : blocks[i] # cur

C1_Witness ==
    /\ pc = "hash" /\ Len(blocks) = 2 /\ difficulty = 2 /\ heap[cur].nonce >= 2

\* C2: with fresh blocks admitted once each, every block after the first holds
\* the final digest of the block before it as its previous_block_hash.
C2_LinkIntegrity ==
    \A i \in 1..(Len(blocks) - 1) : At(i).previous_block_hash = At(i - 1).hash

C2_Witness ==
    /\ pc = "idle" /\ Len(blocks) = 3 /\ At(1).nonce > 0 /\ At(1).hash # At(0).hash

\* C3: on a chain built by the constructor and one addBlock of a fresh block
\* per content, check_integrity returns True and raises nothing, and blocks
\* holds the genesis block followed by the admitted blocks in call order.
C3_HonestChainVerifies ==
    result.op = "check_integrity" =>
        /\ result.exc = "none"
        /\ result.ret = True
        /\ Len(blocks) = 1 + Len(calls)
        /\ \A i \in 1..Len(calls) : blocks[i + 1] = calls[i]

C3_Witness ==
    /\ result.op = "check_integrity" /\ Len(blocks) = 3 /\ difficulty = 2
    /\ At(1).content # At(2).content

\* C5: every block's digest is Hash(content ++ decimal(nonce)) whenever it is
\* observed between operations and at every evaluation of the loop guard (the
\* only point where it may differ is between the increment and the
\* recomputation); a block that was constructed and not yet admitted has
\* nonce 0 and digest Hash(content ++ "0").
C5_DigestCorrect ==
    \A b \in DOMAIN heap :
        /\ (pc = "hash" /\ b = cur) \/ heap[b].hash = DigestOf(heap[b])
        /\ heap[b].idx = NoneIdx =>
              /\ heap[b].nonce = 0
              /\ heap[b].hash = encode_string(Str(heap[b].content.val \o <<0>>)).val

C5_Witness ==
    /\ pc = "guard" /\ heap[cur].nonce >= 10 /\ Len(blocks) >= 1

\* C6: when the constructor returns blocks holds exactly one block, and from
\* then on, whatever fresh blocks are admitted, blocks[0] has index 0, the
\* 'no predecessor' marker as previous_block_hash and the genesis payload.
C6_GenesisInvariant ==
    [][ /\ (~constructed /\ constructed') => Len(blocks') = 1
        /\ constructed' =>
              /\ Len(blocks') >= 1
              /\ heap'[blocks'[1]].idx = 0
              /\ heap'[blocks'[1]].previous_block_hash = GenesisPrev
              /\ heap'[blocks'[1]].content = GenesisContent ]_vars

C6_Witness ==
    /\ constructed /\ Len(blocks) = 3 /\ pc = "idle"

\* every addBlock call of the caller was given a block that had not been
\* passed to addBlock before (the genesis block is the first object built)
FreshCalls ==
    \A i \in 1..Len(calls) :
        /\ calls[i] # 1
        /\ \A j \in 1..(i - 1) : calls[j] # calls[i]

IndexInvariant == \A i \in 0..(Len(blocks) - 1) : At(i).idx = i

\* C7 as stated: after any sequence of addBlock calls, whatever Block object
\* each was given (fresh or admitted before), blocks[i].idx = i for every i.
C7_Original == pc = "idle" => IndexInvariant

\* C7 as amended: the same, provided every addBlock call was given a block
\* that had not been passed to addBlock before.
C7_IndexInvariantFresh == (pc = "idle" /\ FreshCalls) => IndexInvariant

C7_Witness ==
    /\ pc = "idle" /\ FreshCalls /\ Len(blocks) = 3

\* C10: Block(content) and encode_string(message) with an argument that is not
\* a str raise before a digest is computed: the call returns nothing, no Block
\* object results (every block ever built has text content), and the step
\* leaves the chain and every block as they were.
C10_InvalidContentRejected ==
    [][ /\ \A b \in DOMAIN heap' : heap'[b].content.type = "str"
        /\ (result'.op \in {"Block", "encode_string"} /\ result'.input.type # "str") =>
              /\ result'.exc \in {"TypeError", "AssertionError"}
              /\ result'.ret = None
        /\ (result'.op \in {"Block", "encode_string"} /\ result'.exc # "none") =>
              /\ heap' = heap
              /\ blocks' = blocks
              /\ difficulty' = difficulty ]_vars

C10_Witness ==
    /\ result.op = "Block" /\ result.input.type = "int" /\ result.exc = "TypeError"
    /\ Len(blocks) = 2

\* ------------------------------------------- claims about verification
\* the three conditions of the pass, stated for the block at position i >= 1
LinkBad(i)   == At(i).previous_block_hash # At(i - 1).hash
DigestBad(i) == At(i).hash # DigestOf(At(i))
PowBad(i)    == ~LeadingZeros(At(i).hash, difficulty)

CheckLines == <<LinkLine, DigestLine, PowLine>>

\* every check of a full pass, in the order index ascending from 1 and, within
\* an index, link, digest, proof of work
AllChecks ==
    [n \in 1..(3 * (Len(blocks) - 1)) |->
        <<1 + ((n - 1) \div 3), CheckLines[1 + ((n - 1) % 3)]>>]

Violated(n) ==
    LET i == AllChecks[n][1]
        line == AllChecks[n][2]
    IN CASE line = LinkLine -> LinkBad(i)
         [] line = DigestLine -> DigestBad(i)
         [] line = PowLine -> PowBad(i)

AnyViolation == \E n \in DOMAIN AllChecks : Violated(n)

FirstViolation ==
    CHOOSE n \in DOMAIN AllChecks : Violated(n) /\ \A m \in 1..(n - 1) : ~Violated(m)

Kind(line) ==
    CASE line = LinkLine -> "LinkMismatch"
      [] line = DigestLine -> "DigestMismatch"
      [] line = PowLine -> "ProofOfWorkUnsatisfied"

\* the pass stopped at the first violation and examined nothing after it
StopsAtFirst ==
    /\ result.exc = "AssertionError"
    /\ result.trace = SubSeq(AllChecks, 1, FirstViolation)
    /\ result.line = AllChecks[FirstViolation][2]

\* the index at which the pass stopped
FailIndex == result.trace[Len(result.trace)][1]

\* exactly one attribute was overwritten, and compute_hash was not called after
OneOverwrite == nTampers = 1 /\ lastTamper.field \in {"content", "hash"}

\* C4 as stated: after overwriting the content or the digest of the block at
\* any index k, check_integrity raises a DigestMismatch or LinkMismatch at k.
C4_Original ==
    (result.op = "check_integrity" /\ OneOverwrite) =>
        /\ result.exc = "AssertionError"
        /\ result.line \in {LinkLine, DigestLine}
        /\ FailIndex = lastTamper.k

\* C4 as amended: for k >= 1, an overwritten digest, or an overwritten content
\* whose Hash(content ++ decimal(nonce)) differs from the stored digest, makes
\* the pass fail with a DigestMismatch at k (a colliding content passes).  The
\* block at k = 0 is not examined: its overwritten content is never detected,
\* and its overwritten digest is reported as a LinkMismatch at index 1 when
\* block 1 was admitted before the overwrite, and not at all otherwise.
C4_TamperDetection ==
    (result.op = "check_integrity" /\ OneOverwrite) =>
        LET k == lastTamper.k IN
        IF k >= 1
        THEN IF lastTamper.field = "hash" \/ At(k).hash # DigestOf(At(k))
             THEN /\ result.exc = "AssertionError"
                  /\ result.line = DigestLine
                  /\ FailIndex = k
             ELSE result.ret = True
        ELSE IF /\ lastTamper.field = "hash"
                /\ Len(blocks) >= 2
                /\ At(1).previous_block_hash = lastTamper.old
             THEN /\ result.exc = "AssertionError"
                  /\ result.line = LinkLine
                  /\ FailIndex = 1
             ELSE result.ret = True

C4_Witness ==
    /\ result.op = "check_integrity" /\ OneOverwrite
    /\ lastTamper.field = "content" /\ lastTamper.k = 1 /\ Len(blocks) = 3
    /\ result.line = DigestLine

\* a colliding content at k >= 1 passes verification
C4_CollisionReached ==
    /\ result.op = "check_integrity" /\ OneOverwrite
    /\ lastTamper.field = "content" /\ lastTamper.k >= 1 /\ result.ret = True

C9_VerdictIffValid ==
    result.op = "check_integrity" =>
        /\ (result.ret = True /\ result.exc = "none") <=> ~AnyViolation
        /\ AnyViolation => (result.exc # "none" /\ result.ret = None)
        /\ Len(blocks) = 1 => result.ret = True
        /\ ( /\ nTampers = 1
             /\ lastTamper.k = 0
             /\ lastTamper.field \in {"content", "nonce", "previous_block_hash"} )
           => result.ret = True

C9_Witness ==
    /\ result.op = "check_integrity" /\ result.ret = True
    /\ nTampers = 1 /\ lastTamper.k = 0 /\ lastTamper.field = "content"
    /\ Len(blocks) = 3

\* ------------------------------------------- claims about admission
\* Hash(content ++ decimal(n)) has `difficulty` leading zeros
Sat(content, n) ==
    LeadingZeros(encode_string(Str(content.val \o str(n))).val, difficulty)

\* C11: an addBlock of a block that is not in the chain appends exactly that
\* block at the last position; no step changes difficulty or any field of a
\* block that is in blocks, and blocks only grows at its end, so every earlier
\* value of blocks is a prefix of every later one.
C11_AppendOnly ==
    [][ /\ difficulty' = difficulty
        /\ Len(blocks') >= Len(blocks)
        /\ SubSeq(blocks', 1, Len(blocks)) = blocks
        /\ \A i \in 1..Len(blocks) : heap'[blocks[i]] = heap[blocks[i]]
        /\ (pc = "guard" /\ pc' = "idle") =>
              /\ blocks' = Append(blocks, cur)
              /\ heap'[cur] = heap[cur]
        /\ blocks' # blocks => (pc = "guard" /\ pc' = "idle") ]_vars

C11_Witness ==
    /\ pc = "idle" /\ Len(blocks) = 3 /\ result.op = "addBlock"

\* C12: the nonce of an admitted fresh block is the least n >= 0 whose digest
\* has `difficulty` leading zeros: the nonce only moves from n to n + 1, no
\* nonce below the current one satisfies the target, and a block whose digest
\* at nonce 0 satisfies it is appended with nonce 0 and its digest untouched.
C12_MinimalNonce ==
    [][ /\ \A b \in DOMAIN heap :
              heap'[b].nonce \in {heap[b].nonce, heap[b].nonce + 1}
        /\ \A b \in DOMAIN heap' :
              \A m \in 0..(heap'[b].nonce - 1) : ~Sat(heap'[b].content, m)
        /\ \A i \in 1..Len(blocks') :
              Sat(heap'[blocks'[i]].content, heap'[blocks'[i]].nonce)
        /\ (pc = "guard" /\ pc' = "idle" /\ heap[cur].nonce = 0) =>
              /\ heap'[cur].nonce = 0
              /\ heap'[cur].hash = encode_string(Str(heap[cur].content.val \o <<0>>)).val ]_vars

C12_Witness ==
    /\ pc = "idle" /\ Len(blocks) = 3
    /\ At(1).nonce = 0 /\ At(2).nonce >= 10

\* the outcome of mining as a function of the content and the difficulty
MinNonce(content) ==
    CHOOSE n \in 0..MaxNonce : Sat(content, n) /\ \A m \in 0..(n - 1) : ~Sat(content, m)

Mined(content) ==
    [nonce |-> MinNonce(content),
     hash |-> encode_string(Str(content.val \o str(MinNonce(content)))).val]

\* the block at position i as determined by the difficulty and the contents
Expected(i) ==
    [idx |-> i,
     content |-> At(i).content,
     nonce |-> Mined(At(i).content).nonce,
     hash |-> Mined(At(i).content).hash,
     previous_block_hash |->
        IF i = 0 THEN GenesisPrev ELSE Mined(At(i - 1).content).hash]

\* C14: the nonce and digest of an admitted fresh block depend on its content
\* and the difficulty alone, not on its position, its previous_block_hash or
\* the earlier blocks; the whole chain is the function Expected of the
\* difficulty and the list of contents, so two chains built from the same
\* difficulty and contents are equal field by field.
C14_Deterministic ==
    /\ \A i \in 0..(Len(blocks) - 1) : At(i) = Expected(i)
    /\ \A i, j \in 0..(Len(blocks) - 1) :
          At(i).content = At(j).content =>
              (At(i).nonce = At(j).nonce /\ At(i).hash = At(j).hash)

C14_Witness ==
    /\ pc = "idle" /\ Len(blocks) = 3
    /\ At(1).content = At(2).content
    /\ At(1).previous_block_hash # At(2).previous_block_hash
    /\ At(1).nonce > 0

\* C15: check_integrity changes nothing: whether it returns or raises,
\* difficulty, blocks and every field of every block are as before, and a
\* second run right after the first has the same outcome.
C15_ReadOnly ==
    [][ result'.op = "check_integrity" =>
           /\ difficulty' = difficulty
           /\ blocks' = blocks
           /\ heap' = heap
           /\ result.op = "check_integrity" => result' = result ]_vars

C15_Witness ==
    /\ result.op = "check_integrity" /\ result.exc = "AssertionError"
    /\ nTampers = 1 /\ lastTamper.field = "hash" /\ Len(blocks) = 3

\* some nonce within the bound gives block b a digest that meets the target
Solvable(b) == \E n \in 0..MaxNonce : Sat(heap[b].content, n)

InChain(b) == \E i \in 1..Len(blocks) : blocks[i] = b

\* C13: admission of a fresh block ends with the block appended exactly when
\* some nonce gives a digest with `difficulty` leading zeros: if one exists the
\* block is eventually in blocks, and a block in blocks has such a nonce; when
\* none exists the call stays in the mining loop and blocks is unchanged; the
\* admission never ends with an exception.
C13_AdmissionOutcome ==
    /\ \A b \in 1..MaxBlocks :
          (pc = "guard" /\ cur = b /\ Solvable(b)) ~> (pc = "idle" /\ InChain(b))
    /\ [](\A b \in DOMAIN heap : InChain(b) => Solvable(b))
    /\ [][ (Mining /\ ~Solvable(cur)) =>
              (Mining' /\ cur' = cur /\ blocks' = blocks) ]_vars
    /\ [](Mining => result = NoResult)
    /\ [](result.op \in {"addBlock", "BlockChain"} => (result.exc = "none" /\ pc = "idle"))

C13_Witness ==
    /\ pc = "idle" /\ result.op = "addBlock" /\ result.exc = "none"
    /\ Len(blocks) = 2 /\ At(1).nonce >= 9

\* a difficulty above the digest length: the constructor is still mining the
\* genesis block at the largest nonce the model follows
C13_NeverAdmitted ==
    /\ difficulty > HashLen /\ Mining /\ ~Solvable(cur)
    /\ heap[cur].nonce = MaxNonce /\ blocks = <<>> /\ ~constructed

\* ------------------------------------------- claims about overlapping calls
\* both callers are outside addBlock
Quiescent == pc = "idle" /\ pc2 = "idle"

\* the second caller started its admission while the first was in its own
Overlapped ==
    \E i, j \in 1..Len(calls) :
        i # j /\ heap[calls[i]].idx = heap[calls[j]].idx

\* C16: when two addBlock calls on one chain overlap (the second reads
\* len(blocks) before the first has appended), the chain that results still
\* has blocks[i].idx = i at every position and every block's
\* previous_block_hash equal to the digest of the block before it.
C16_SequentialAppend ==
    Quiescent =>
        /\ IndexInvariant
        /\ \A i \in 1..(Len(blocks) - 1) :
              At(i).previous_block_hash = At(i - 1).hash

\* the chain after two overlapped admissions: positions 1 and 2 both hold idx 1
\* and both name the genesis digest as predecessor
C16_OverlapReached ==
    /\ Quiescent /\ Len(blocks) = 3 /\ Overlapped
    /\ At(1).idx = 1 /\ At(2).idx = 1
    /\ At(2).previous_block_hash = At(0).hash

====
